---- MODULE Spec2Model ----
(***************************************************************************)
(* Model of sensors_checking.py: a health check of temperature and         *)
(* humidity sensors read over SSH.  The state machine follows one call of  *)
(* main(), or one direct call of ssh_run, flatten_sensors or validate (as  *)
(* the unit tests make them), statement group by statement group.          *)
(*                                                                         *)
(* Numbers: a raw sensor value is an integer count of milli-units, a       *)
(* reading is an integer count of tenths of a unit (round(val / 1000, 1)   *)
(* has one decimal), a range bound is given in tenths as well.  The float  *)
(* NaN, which json.loads accepts, is the value NaN below; every ordered    *)
(* comparison with it is false.                                            *)
(***************************************************************************)
EXTENDS Integers, Sequences, FiniteSets, TLC

VARIABLES
    entry,      \* which function the run calls: main, ssh_run, flatten_sensors, validate
    pc,         \* position in the code
    args,       \* the call's arguments / the parsed command line
    conn,       \* ssh_run's local conn: "None" or "client"
    connects,   \* number of conn.connect calls made
    closes,     \* number of conn.close calls made
    exc,        \* the exception in flight ("none" when there is none)
    raw,        \* the text ssh_run returned
    data,       \* the deserialized document
    vals,       \* the flattened readings
    issues,     \* validate's result
    bound,      \* the names among raw, data, vals, issues that have been assigned
    out,        \* lines written to standard output
    err,        \* lines written to standard error
    exitCode    \* the process exit status (-1 while running or when no exit happened)

vars == <<entry, pc, args, conn, connects, closes, exc, raw, data, vals, issues,
          bound, out, err, exitCode>>

----------------------------------------------------------------------------
(* Bounds of the model.                                                    *)

MaxChips == 2
MaxReadings == 2
MaxExpected == 3

----------------------------------------------------------------------------
(* Values.                                                                 *)

NaN == 999999999

\* Python's <= on floats: false as soon as one side is NaN.
Le(a, b) == a # NaN /\ b # NaN /\ a <= b

\* Python's < on floats.
Lt(a, b) == a # NaN /\ b # NaN /\ a < b

\* Field names, as sequences of characters.
LblTemp1Input == <<"t","e","m","p","1","_","i","n","p","u","t">>
LblTemp2Input == <<"t","e","m","p","2","_","i","n","p","u","t">>
LblHumidity1Input == <<"h","u","m","i","d","i","t","y","1","_","i","n","p","u","t">>
LblTemp1Max == <<"t","e","m","p","1","_","m","a","x">>
LblFan1Input == <<"f","a","n","1","_","i","n","p","u","t">>
LblAdapter == <<"A","d","a","p","t","e","r">>
LblTemp1 == <<"t","e","m","p","1">>

SuffixInput == <<"_","i","n","p","u","t">>
PrefixTemp == <<"t","e","m","p">>
PrefixHumidity == <<"h","u","m","i","d","i","t","y">>

\* str.startswith / str.endswith
StartsWith(s, p) == Len(s) >= Len(p) /\ SubSeq(s, 1, Len(p)) = p
EndsWith(s, p) == Len(s) >= Len(p) /\ SubSeq(s, Len(s) - Len(p) + 1, Len(s)) = p

\* A JSON value inside a chip: its Python type after json.loads and, for a
\* number, its value in milli-units (a bool carries 1 or 0).
JInt(n) == [t |-> "int", v |-> n]
JFloat(n) == [t |-> "float", v |-> n]
JBool(b) == [t |-> "bool", v |-> IF b THEN 1 ELSE 0]
JStr == [t |-> "str", v |-> 0]
JNull == [t |-> "NoneType", v |-> 0]
JDict == [t |-> "dict", v |-> 0]

Field(l, x) == [label |-> l, val |-> x]

\* A chip entry of the document: a mapping with its fields in order, or a value
\* of another type.
Chip(fs) == [t |-> "dict", fields |-> fs]
NotAChip(ty) == [t |-> ty, fields |-> <<>>]

\* The chip of SAMPLE_JSON.
ChipSample == Chip(<<Field(LblTemp1Input, JInt(25000)),
                     Field(LblTemp2Input, JInt(26000)),
                     Field(LblHumidity1Input, JInt(45000))>>)
\* The chip of test_main_out_of_range.
ChipBad == Chip(<<Field(LblTemp1Input, JInt(-30000)),
                  Field(LblHumidity1Input, JInt(150000))>>)
\* The chip of test_flatten_sensors_invalid_values.
ChipInvalid == Chip(<<Field(LblTemp1Input, JStr),
                      Field(LblHumidity1Input, JInt(50000))>>)
ChipEmpty == Chip(<<>>)
\* Metadata, a nested mapping, another prefix, a boolean and a null.
ChipMixed == Chip(<<Field(LblAdapter, JStr),
                    Field(LblTemp1, JDict),
                    Field(LblTemp1Max, JInt(80000)),
                    Field(LblFan1Input, JInt(1200)),
                    Field(LblTemp1Input, JBool(TRUE)),
                    Field(LblHumidity1Input, JNull)>>)
\* A float that rounds on a tie, a reading on the lower bound of the default range.
ChipEdge == Chip(<<Field(LblHumidity1Input, JFloat(26050)),
                   Field(LblTemp1Input, JInt(-20000))>>)
\* The NaN literal, which json.loads accepts.
ChipNaN == Chip(<<Field(LblTemp1Input, JFloat(NaN))>>)

SampleChips == {ChipSample, ChipBad, ChipInvalid, ChipEmpty, ChipMixed, ChipEdge,
                ChipNaN, NotAChip("int")}

SeqsUpTo(S, n) == UNION {[1..k -> S] : k \in 0..n}

\* A deserialized document: its Python type and, for a dict, its chip entries.
Doc(ty, cs) == [t |-> ty, chips |-> cs]
NoDoc == Doc("unbound", <<>>)

Mappings == {Doc("dict", cs) : cs \in SeqsUpTo(SampleChips, MaxChips)}
NonMappings == {Doc(ty, <<>>) : ty \in {"list", "int", "str", "NoneType", "bool"}}

\* The text the remote command prints: the serialization of a JSON value, or
\* text that is not JSON at all (as "{invalid}" or the empty text).
Text(wellFormed, d) == [wf |-> wellFormed, doc |-> d]
NoText == Text(FALSE, NoDoc)
RawTexts == {Text(TRUE, d) : d \in Mappings \cup NonMappings} \cup {Text(FALSE, Doc("garbage", <<>>))}

\* Readings and ranges, in tenths.
ReadingVals == {-300, -200, 250, 800, NaN}
TempRanges == {<<-200, 800>>, <<800, -200>>, <<0, 500>>}
HumRanges == {<<0, 1000>>, <<300, 400>>}
Readings(t, h) == [temp |-> t, hum |-> h]
NoVals == Readings(<<>>, <<>>)

----------------------------------------------------------------------------
(* flatten_sensors                                                         *)

\* isinstance(val, (int, float)); bool is a subclass of int.
IsNumeric(val) == val.t \in {"int", "float", "bool"}

\* The values of the model whose quotient by 1000 lies on a rounding tie in
\* decimal and, as a double, above it: round(26050 / 1000, 1) = 26.1.
TiesRoundedUp == {50, 750, 26050}

\* round(val / 1000, 1), in tenths.
RoundTenths(v) ==
    IF v = NaN THEN NaN
    ELSE LET q == v \div 100
             r == v % 100
         IN  IF r < 50 THEN q
             ELSE IF r > 50 THEN q + 1
             ELSE IF v \in TiesRoundedUp THEN q + 1 ELSE q

\* One pass of the inner loop body (lines 122-136) on the accumulator.
FlattenField(flat, f) ==
    IF ~IsNumeric(f.val)
    THEN [flat EXCEPT !.warned = Append(@, f.label)]
    ELSE IF ~EndsWith(f.label, SuffixInput) THEN flat
    ELSE IF StartsWith(f.label, PrefixTemp)
         THEN [flat EXCEPT !.temp = Append(@, RoundTenths(f.val.v))]
    ELSE IF StartsWith(f.label, PrefixHumidity)
         THEN [flat EXCEPT !.hum = Append(@, RoundTenths(f.val.v))]
    ELSE flat

RECURSIVE WalkFields(_, _)
WalkFields(fields, flat) ==
    IF fields = <<>> THEN flat
    ELSE WalkFields(Tail(fields), FlattenField(flat, Head(fields)))

\* The outer loop: chip.items() raises AttributeError on a chip entry that is
\* not a dict, after the warnings of the chips before it were printed.
RECURSIVE WalkChips(_, _)
WalkChips(chips, flat) ==
    IF chips = <<>> THEN flat
    ELSE IF Head(chips).t # "dict" THEN [flat EXCEPT !.raised = TRUE]
    ELSE WalkChips(Tail(chips), WalkFields(Head(chips).fields, flat))

\* flatten_sensors(data): the readings, the fields warned about (in order) and
\* whether AttributeError was raised (data.values() on a non-dict, chip.items()
\* on a non-dict).
flatten_sensors(d) ==
    LET flat0 == [temp |-> <<>>, hum |-> <<>>, warned |-> <<>>, raised |-> FALSE]
    IN  IF d.t # "dict" THEN [flat0 EXCEPT !.raised = TRUE]
        ELSE WalkChips(d.chips, flat0)

----------------------------------------------------------------------------
(* validate                                                                *)

\* Mutants of InRange: the lower bound forgotten; both bounds exclusive.
InRangeUpperOnly(lo, v, hi) == Le(v, hi)
InRangeExclusive(lo, v, hi) == Lt(lo, v) /\ Lt(v, hi)

\* lo <= v <= hi
InRange(lo, v, hi) == Le(lo, v) /\ Le(v, hi)

Issue(kind, i, v, lo, hi) == [kind |-> kind, idx |-> i, v |-> v, lo |-> lo, hi |-> hi]

\* The inner loop of validate over one list, from position i.
RECURSIVE CheckList(_, _, _, _)
CheckList(kind, lst, i, range) ==
    IF i > Len(lst) THEN <<>>
    ELSE (IF ~InRange(range[1], lst[i], range[2])
          THEN <<Issue(kind, i, lst[i], range[1], range[2])>>
          ELSE <<>>) \o CheckList(kind, lst, i + 1, range)

\* validate(values, ranges): values.items() yields temp, then hum.
validate(values, ranges) ==
    CheckList("temp", values.temp, 1, ranges.temp)
        \o CheckList("hum", values.hum, 1, ranges.hum)

----------------------------------------------------------------------------
(* Exceptions                                                              *)

\* The built-in base classes of the exceptions the run can raise.
Bases(e) ==
    CASE e = "JSONDecodeError" -> {"JSONDecodeError", "ValueError", "Exception"}
      [] e = "UnicodeDecodeError" -> {"UnicodeDecodeError", "ValueError", "Exception"}
      [] e = "AttributeError" -> {"AttributeError", "Exception"}
      [] e = "SSHException" -> {"SSHException", "Exception"}
      [] e = "OSError" -> {"OSError", "Exception"}
      [] OTHER -> {"Exception"}

\* The except clauses of get_sensors_json.
CaughtByGetSensorsJson(e) ==
    \/ "TypeError" \in Bases(e)
    \/ "JSONDecodeError" \in Bases(e)
    \/ "ValueError" \in Bases(e)

\* What a paramiko call can raise: a protocol or authentication failure, or a
\* socket error (unreachable host, timeout).
NetworkErrors == {"SSHException", "OSError"}

\* bytes.decode() on output that is not UTF-8.
DecodeError == "UnicodeDecodeError"

----------------------------------------------------------------------------
(* Initial states                                                          *)

DefaultExpected == 3
DefaultRanges == [temp |-> <<-200, 800>>, hum |-> <<0, 1000>>]

Args(p, k, r, e, rg) ==
    [password |-> p, key |-> k, raw |-> r, expected |-> e, ranges |-> rg]

InitCommon ==
    /\ conn = "None"
    /\ connects = 0
    /\ closes = 0
    /\ exc = "none"
    /\ raw = NoText
    /\ issues = <<>>
    /\ out = <<>>
    /\ err = <<>>
    /\ exitCode = -1

\* main(): any command line over the declared options.
InitMain ==
    /\ entry = "main"
    /\ pc = "parse_args"
    /\ args \in {Args(p, k, r, e, [temp |-> t, hum |-> h]) :
                    p \in BOOLEAN, k \in BOOLEAN, r \in BOOLEAN,
                    e \in 0..MaxExpected, t \in TempRanges, h \in HumRanges}
    /\ data = NoDoc
    /\ vals = NoVals
    /\ bound = {}

\* ssh_run called directly: password and key are both optional.
InitSshRun ==
    /\ entry = "ssh_run"
    /\ pc = "ssh_create"
    /\ args \in {Args(p, k, FALSE, DefaultExpected, DefaultRanges) :
                    p \in BOOLEAN, k \in BOOLEAN}
    /\ data = NoDoc
    /\ vals = NoVals
    /\ bound = {}

\* flatten_sensors called directly on a dict.
InitFlatten ==
    /\ entry = "flatten_sensors"
    /\ pc = "flatten"
    /\ args = Args(FALSE, FALSE, FALSE, DefaultExpected, DefaultRanges)
    /\ data \in Mappings
    /\ vals = NoVals
    /\ bound = {"data"}

\* validate called directly.
InitValidate ==
    /\ entry = "validate"
    /\ pc = "validate"
    /\ args \in {Args(FALSE, FALSE, FALSE, DefaultExpected, [temp |-> t, hum |-> h]) :
                    t \in TempRanges, h \in HumRanges}
    /\ data = NoDoc
    /\ vals \in {Readings(t, h) : t \in SeqsUpTo(ReadingVals, MaxReadings),
                                  h \in SeqsUpTo(ReadingVals, MaxReadings)}
    /\ bound = {"vals"}

Init == InitCommon /\ (InitMain \/ InitSshRun \/ InitFlatten \/ InitValidate)

----------------------------------------------------------------------------
(* Output                                                                  *)

Line(kind) == [k |-> kind]
WarningLines(labels) == [i \in 1..Len(labels) |-> [k |-> "not_numeric", label |-> labels[i]]]
IssueLines(is) == [i \in 1..Len(is) |-> [k |-> "issue", issue |-> is[i]]]
\* json.dumps(vals)
JsonLine(v) == [k |-> "json", temp |-> v.temp, hum |-> v.hum]

\* sys.exit(code): SystemExit is not an Exception, no handler of the program
\* catches it.
Exit(code) == pc' = "exit" /\ exitCode' = code

\* Where control goes when the called function returns or raises.
Return(next) == pc' = IF entry = "main" THEN next ELSE "returned"
Raise(handler) == pc' = IF entry = "main" THEN handler ELSE "raised"

----------------------------------------------------------------------------
(* main: the command line (lines 183-226)                                  *)

\* The required mutually exclusive group: exactly one of --password and --key.
AuthAccepted(a) == a.password # a.key

\* parse_args() ends the process with status 2 and a usage message on the
\* error stream when the group is violated.
ParseArgs ==
    /\ pc = "parse_args"
    /\ IF AuthAccepted(args)
       THEN pc' = "ssh_create" /\ UNCHANGED <<err, exitCode>>
       ELSE Exit(2) /\ err' = Append(err, Line("usage"))
    /\ UNCHANGED <<entry, args, conn, connects, closes, exc, raw, data, vals, issues,
                   bound, out>>

----------------------------------------------------------------------------
(* ssh_run (lines 34-59)                                                   *)

\* conn = paramiko.SSHClient(); conn.set_missing_host_key_policy(...)
SshCreate ==
    /\ pc = "ssh_create"
    /\ \/ conn' = "client" /\ pc' = "ssh_connect" /\ UNCHANGED exc
       \/ \E e \in NetworkErrors :
            exc' = e /\ pc' = "ssh_except" /\ UNCHANGED conn
    /\ UNCHANGED <<entry, args, connects, closes, raw, data, vals, issues, bound,
                   out, err, exitCode>>

\* conn.connect(...), with the key when key is truthy, else with the password.
SshConnect ==
    /\ pc = "ssh_connect"
    /\ connects' = connects + 1
    /\ \/ pc' = "ssh_exec" /\ UNCHANGED exc
       \/ \E e \in NetworkErrors : exc' = e /\ pc' = "ssh_except"
    /\ UNCHANGED <<entry, args, conn, closes, raw, data, vals, issues, bound,
                   out, err, exitCode>>

\* conn.exec_command(cmd)
SshExec ==
    /\ pc = "ssh_exec"
    /\ \/ pc' = "ssh_read_err" /\ UNCHANGED exc
       \/ \E e \in NetworkErrors : exc' = e /\ pc' = "ssh_except"
    /\ UNCHANGED <<entry, args, conn, connects, closes, raw, data, vals, issues,
                   bound, out, err, exitCode>>

\* err = stderr.read().decode(); a non-empty err is printed to the error stream.
SshReadErr ==
    /\ pc = "ssh_read_err"
    /\ \/ \E e \in NetworkErrors \cup {DecodeError} :
            exc' = e /\ pc' = "ssh_except" /\ UNCHANGED err
       \/ \E remoteErr \in BOOLEAN :
            /\ err' = IF remoteErr THEN Append(err, Line("ssh_command_error")) ELSE err
            /\ pc' = "ssh_read_out"
            /\ UNCHANGED exc
    /\ UNCHANGED <<entry, args, conn, connects, closes, raw, data, vals, issues,
                   bound, out, exitCode>>

\* return stdout.read().decode()
SshReadOut ==
    /\ pc = "ssh_read_out"
    /\ \/ \E e \in NetworkErrors \cup {DecodeError} :
            exc' = e /\ pc' = "ssh_except" /\ UNCHANGED <<raw, bound>>
       \/ \E text \in RawTexts :
            /\ raw' = text
            /\ bound' = bound \cup {"raw"}
            /\ pc' = "ssh_finally"
            /\ UNCHANGED exc
    /\ UNCHANGED <<entry, args, conn, connects, closes, data, vals, issues, out,
                   err, exitCode>>

\* except Exception as e: print(..., file=sys.stderr); raise
SshExcept ==
    /\ pc = "ssh_except"
    /\ err' = Append(err, Line("ssh_operation_failed"))
    /\ pc' = "ssh_finally"
    /\ UNCHANGED <<entry, args, conn, connects, closes, exc, raw, data, vals, issues,
                   bound, out, exitCode>>

\* Mutant of ShouldClose: the test inverted.
ShouldCloseInverted(c) == c = "None"

\* if conn is not None
ShouldClose(c) == c # "None"

\* finally: conn.close(), whose failure is printed and swallowed; then ssh_run
\* returns the text or lets the exception go on.
SshFinally ==
    /\ pc = "ssh_finally"
    /\ IF ShouldClose(conn)
       THEN /\ closes' = closes + 1
            /\ \E closeFails \in BOOLEAN :
                 err' = IF closeFails THEN Append(err, Line("close_failed")) ELSE err
       ELSE UNCHANGED <<closes, err>>
    /\ IF exc = "none" THEN Return("json_loads") ELSE Raise("get_sensors_json_except")
    /\ UNCHANGED <<entry, args, conn, connects, exc, raw, data, vals, issues, bound,
                   out, exitCode>>

----------------------------------------------------------------------------
(* get_sensors_json (lines 83-95)                                          *)

\* data = json.loads(raw)
JsonLoads ==
    /\ pc = "json_loads"
    /\ IF raw.wf
       THEN /\ data' = raw.doc
            /\ bound' = bound \cup {"data"}
            /\ pc' = "flatten"
            /\ UNCHANGED exc
       ELSE /\ exc' = "JSONDecodeError"
            /\ pc' = "get_sensors_json_except"
            /\ UNCHANGED <<data, bound>>
    /\ UNCHANGED <<entry, args, conn, connects, closes, raw, vals, issues, out, err,
                   exitCode>>

\* except TypeError / json.JSONDecodeError / ValueError: print(...); sys.exit(3).
\* Any other exception goes on to main's handler.
GetSensorsJsonExcept ==
    /\ pc = "get_sensors_json_except"
    /\ IF CaughtByGetSensorsJson(exc)
       THEN /\ out' = Append(out, Line("error_parsing"))
            /\ Exit(3)
       ELSE /\ pc' = "main_except"
            /\ UNCHANGED <<out, exitCode>>
    /\ UNCHANGED <<entry, args, conn, connects, closes, exc, raw, data, vals, issues,
                   bound, err>>

----------------------------------------------------------------------------
(* main: the checks (lines 228-264)                                        *)

\* vals = flatten_sensors(data); its warnings go to standard output.
Flatten ==
    /\ pc = "flatten"
    /\ LET f == flatten_sensors(data)
       IN  /\ out' = out \o WarningLines(f.warned)
           /\ IF f.raised
              THEN /\ exc' = "AttributeError"
                   /\ Raise("main_except")
                   /\ UNCHANGED <<vals, bound>>
              ELSE /\ vals' = Readings(f.temp, f.hum)
                   /\ bound' = bound \cup {"vals"}
                   /\ Return("raw_output")
                   /\ UNCHANGED exc
    /\ UNCHANGED <<entry, args, conn, connects, closes, raw, data, issues, err,
                   exitCode>>

\* if args.raw_json_output: print(json.dumps(vals)); sys.exit(0)
RawOutput ==
    /\ pc = "raw_output"
    /\ IF args.raw
       THEN out' = Append(out, JsonLine(vals)) /\ Exit(0)
       ELSE pc' = "count_check" /\ UNCHANGED <<out, exitCode>>
    /\ UNCHANGED <<entry, args, conn, connects, closes, exc, raw, data, vals, issues,
                   bound, err>>

Total(v) == Len(v.temp) + Len(v.hum)

\* Mutant of MissingSensors: off by one.
MissingSensorsOffByOne(total, expected) == total + 1 < expected

\* if total < args.expected_sensors
MissingSensors(total, expected) == total < expected

\* The summary lines, then the count check.
CountCheck ==
    /\ pc = "count_check"
    /\ LET summary == <<[k |-> "found", temp |-> Len(vals.temp), hum |-> Len(vals.hum),
                         total |-> Total(vals)],
                        [k |-> "temperature_values", temp |-> vals.temp],
                        [k |-> "humidity_values", hum |-> vals.hum]>>
       IN  IF MissingSensors(Total(vals), args.expected)
           THEN out' = out \o summary \o <<Line("missing_sensors")>> /\ Exit(1)
           ELSE out' = out \o summary /\ pc' = "validate" /\ UNCHANGED exitCode
    /\ UNCHANGED <<entry, args, conn, connects, closes, exc, raw, data, vals, issues,
                   bound, err>>

\* issues = validate(vals, ranges); if issues: print them; sys.exit(2)
RangeCheck ==
    /\ pc = "validate"
    /\ issues' = validate(vals, args.ranges)
    /\ bound' = bound \cup {"issues"}
    /\ IF entry = "main" /\ issues' # <<>>
       THEN out' = out \o <<Line("ISSUES")>> \o IssueLines(issues') /\ Exit(2)
       ELSE Return("success") /\ UNCHANGED <<out, exitCode>>
    /\ UNCHANGED <<entry, args, conn, connects, closes, exc, raw, data, vals, err>>

\* except Exception as e: print(..., file=sys.stderr); sys.exit(1)
MainExcept ==
    /\ pc = "main_except"
    /\ err' = Append(err, Line("failed_to_get_sensor_data"))
    /\ Exit(1)
    /\ UNCHANGED <<entry, args, conn, connects, closes, exc, raw, data, vals, issues,
                   bound, out>>

\* print("All sensors within range, exiting 0"); sys.exit(0)
Success ==
    /\ pc = "success"
    /\ out' = Append(out, Line("all_within_range"))
    /\ Exit(0)
    /\ UNCHANGED <<entry, args, conn, connects, closes, exc, raw, data, vals, issues,
                   bound, err>>

----------------------------------------------------------------------------

Next ==
    \/ ParseArgs
    \/ SshCreate
    \/ SshConnect
    \/ SshExec
    \/ SshReadErr
    \/ SshReadOut
    \/ SshExcept
    \/ SshFinally
    \/ JsonLoads
    \/ GetSensorsJsonExcept
    \/ Flatten
    \/ RawOutput
    \/ CountCheck
    \/ RangeCheck
    \/ MainExcept
    \/ Success

Spec == Init /\ [][Next]_vars

----------------------------------------------------------------------------
(* Properties                                                              *)

InMain == entry = "main"
Exited == pc = "exit"
Acquired == "vals" \in bound
HasLine(stream, kind) == \E i \in 1..Len(stream) : stream[i].k = kind

\* v lies in the closed interval [lo, hi] (never true of NaN).
Within(v, lo, hi) == v # NaN /\ lo # NaN /\ hi # NaN /\ lo <= v /\ v <= hi
AllWithin(lst, range) == \A i \in 1..Len(lst) : Within(lst[i], range[1], range[2])

\* The count check and what it guards, for a run of main that is not in raw
\* mode and has acquired fewer readings than expected.
CountCheckFirst ==
    (InMain /\ ~args.raw /\ Acquired /\ Total(vals) < args.expected)
        => /\ pc \in {"raw_output", "count_check", "exit"}
           /\ Exited => exitCode = 1
           /\ "issues" \notin bound
           /\ ~HasLine(out, "ISSUES")
           /\ ~HasLine(out, "issue")

CountCheckPassed == Acquired /\ Total(vals) >= args.expected

\* C1 as stated: in non-raw mode a run that acquired fewer readings than
\* expected ends with status 1 and never reports range issues, and status 2 is
\* reached only on runs where the count check has passed.
C1_Original ==
    /\ CountCheckFirst
    /\ exitCode = 2 => CountCheckPassed

\* C1 as amended: the same, except that status 2 is also the status with which
\* the argument parser rejects a command line (before anything is acquired);
\* on every other run status 2 is reached only after the count check passed.
C1_CountCheckPriority ==
    /\ CountCheckFirst
    /\ exitCode = 2 =>
         \/ CountCheckPassed /\ ~args.raw /\ issues # <<>>
         \/ ~(args.password # args.key) /\ bound = {} /\ connects = 0

\* A run with too few readings, one of them out of range, that ended with 1.
C1_Witness ==
    /\ InMain /\ Exited /\ exitCode = 1 /\ ~args.raw /\ Acquired
    /\ Total(vals) > 0
    /\ Total(vals) < args.expected
    /\ ~AllWithin(vals.temp, args.ranges.temp)

\* A document flatten_sensors can walk: a dict whose entries are dicts.
Walkable(d) == d.t = "dict" /\ \A i \in 1..Len(d.chips) : d.chips[i].t = "dict"

\* C2 as stated: when the remote text is not well-formed JSON, or is JSON
\* that is not a walkable document, the run ends with status 3.
C2_BadDataExit3 ==
    (InMain /\ Exited /\ "raw" \in bound /\ (~raw.wf \/ ~Walkable(raw.doc)))
        => exitCode = 3

\* C3 as stated: when ssh_run fails with an error of any kind, main ends with
\* status 1.
C3_ExecutorFailureExit1 ==
    (InMain /\ Exited /\ exc \in NetworkErrors \cup {DecodeError}) => exitCode = 1

SshRunning ==
    pc \in {"parse_args", "ssh_create", "ssh_connect", "ssh_exec", "ssh_read_err",
            "ssh_read_out", "ssh_except", "ssh_finally"}

\* C4: once ssh_run has returned or raised, close has been called exactly once
\* if the client object was created (and never otherwise, and never twice);
\* and the step that closes, whether close fails or not, leaves the returned
\* text and the exception in flight as they were and continues accordingly.
C4_CloseExactlyOnce ==
    /\ [](/\ closes <= 1
          /\ closes = 1 => conn = "client"
          /\ (~SshRunning /\ conn = "client") => closes = 1)
    /\ [][pc = "ssh_finally" =>
            /\ exc' = exc
            /\ raw' = raw
            /\ bound' = bound
            /\ exitCode' = exitCode
            /\ (pc' \in {"json_loads", "returned"}) = (exc = "none")
            /\ (pc' \in {"get_sensors_json_except", "raised"}) = (exc # "none")]_vars

\* ssh_run raised after the client was created, and close failed as well.
C4_Witness ==
    /\ entry = "ssh_run" /\ pc = "raised" /\ conn = "client" /\ closes = 1
    /\ exc = "UnicodeDecodeError"
    /\ HasLine(err, "close_failed")

C6_RawOutputOnlyJson ==
    (InMain /\ Exited /\ args.raw /\ Acquired) => out = <<JsonLine(vals)>>

IssuesOfKind(kind) == SelectSeq(issues, LAMBDA x : x.kind = kind)

\* The issues are exactly those of the readings of lst that Violates holds of:
\* one each, with kind, position, value and range, in the order of lst.
IssuesAreExactly(kind, lst, range, Violates(_, _, _)) ==
    LET got == IssuesOfKind(kind)
        bad == {i \in 1..Len(lst) : Violates(lst[i], range[1], range[2])}
    IN  /\ Len(got) = Cardinality(bad)
        /\ \A j \in 1..Len(got) :
             /\ got[j].idx \in bad
             /\ got[j].v = lst[got[j].idx]
             /\ got[j].lo = range[1] /\ got[j].hi = range[2]
        /\ \A j, k \in 1..Len(got) : j < k => got[j].idx < got[k].idx

ValidateReturns(Violates(_, _, _)) ==
    "issues" \in bound =>
        /\ IssuesAreExactly("temp", vals.temp, args.ranges.temp, Violates)
        /\ IssuesAreExactly("hum", vals.hum, args.ranges.hum, Violates)
        /\ Len(issues) = Len(IssuesOfKind("temp")) + Len(IssuesOfKind("hum"))

StrictlyOutside(v, lo, hi) == Lt(v, lo) \/ Lt(hi, v)
NotWithin(v, lo, hi) == ~Within(v, lo, hi)

\* C7 as stated: validate returns exactly one issue per reading v with
\* v < min or v > max, labelled and in order, and none for any other reading.
C7_Original == ValidateReturns(StrictlyOutside)

\* C7 as amended: validate returns exactly one issue per reading v for which
\* min <= v <= max does not hold (v < min, v > max, or v is NaN), labelled with
\* its kind and 1-based position, in sequence order, and none for a reading
\* with min <= v <= max; with min > max every reading is reported.
C7_ValidateInclusive == ValidateReturns(NotWithin)

\* validate has run on an inverted temp range with two temp readings, and on a
\* hum reading that is in range.
C7_Witness ==
    /\ "issues" \in bound
    /\ args.ranges.temp[1] > args.ranges.temp[2]
    /\ Len(vals.temp) = 2
    /\ Len(IssuesOfKind("temp")) = 2
    /\ Len(vals.hum) > 0
    /\ Len(IssuesOfKind("hum")) < Len(vals.hum)

RECURSIVE AllFields(_)
AllFields(chips) ==
    IF chips = <<>> THEN <<>> ELSE Head(chips).fields \o AllFields(Tail(chips))

\* A field that the claim says adds a reading of the given kind.
IsReadingField(f, prefix) ==
    /\ f.val.t \in {"int", "float"}
    /\ EndsWith(f.label, SuffixInput)
    /\ StartsWith(f.label, prefix)

ReadingsOf(d, prefix) ==
    LET fs == SelectSeq(AllFields(d.chips), LAMBDA f : IsReadingField(f, prefix))
    IN  [i \in 1..Len(fs) |-> RoundTenths(fs[i].val.v)]

\* C8 as stated: the readings flatten_sensors returns are those of the fields
\* whose value is an integer or a float (not a boolean, string, null, list or
\* mapping) and whose name ends with _input and starts with temp or humidity,
\* in encounter order.
C8_FlattenExactlyNumericInputs ==
    ("data" \in bound /\ Acquired) =>
        /\ vals.temp = ReadingsOf(data, PrefixTemp)
        /\ vals.hum = ReadingsOf(data, PrefixHumidity)

\* C9 as stated: a run that ends with status 3, or with status 1 for another
\* reason than missing sensors, has written a diagnostic to standard error.
C9_FatalDiagnosticOnStderr ==
    (InMain /\ Exited /\ (exitCode = 3 \/ (exitCode = 1 /\ ~HasLine(out, "missing_sensors"))))
        => err # <<>>

\* C10 as stated: no connect is attempted unless exactly one of password and
\* key was supplied, for main and for ssh_run called directly.
C10_NoConnectWithoutExactlyOneAuth ==
    connects > 0 => (args.password # args.key)

====
